---- MODULE Spec2Model ----
(***************************************************************************)
(* TestTree (src/src/testTree.ts): the presentation tree of VS Code test   *)
(* items kept in sync with the logical test tree of every workspace folder.*)
(*                                                                         *)
(* Strings that the code concatenates and tests with startsWith are        *)
(* sequences of tokens: '' is << >>, a + b is a \o b.  Test items are      *)
(* objects of a heap, named by their index; two items with equal fields    *)
(* are still two objects.                                                  *)
(*                                                                         *)
(* The workspace folders and the models are the environment: every handler *)
(* runs to its end on the values it finds, so each action takes them as    *)
(* its input and runs the whole handler.                                   *)
(*                                                                         *)
(* Spec opens and closes two workspace folders between the passes.         *)
(* SpecAttr has one folder and varies what the passes are given for it:    *)
(* the tags and the location of a test case, its tests per project, and    *)
(* configuration errors that share an id; it also calls collectTestsInside.*)
(***************************************************************************)
EXTENDS Integers, Sequences, FiniteSets, TLC

VARIABLES
  testGeneration,    \* _testGeneration: '' or a guid followed by ':'
  rootItems,         \* _rootItems: Map fsPath -> item, as a sequence of [key, item] in insertion order
  items,             \* _testController.items: the top-level collection, item objects in order
  heap,              \* every test item created so far, by object index
  testItemByTestId,  \* _testItemByTestId: function test id -> item
  testItemByFile,    \* _testItemByFile: function file path -> item
  guids,             \* number of guids createGuid() has handed out
  workspaceFolders,  \* vscode.workspace.workspaceFolders as the last handler saw it
  provider,          \* per folder, what the models and the upstream tree gave the last pass
                     \* since startedLoading() (nothing before the first pass)
  pastGenerations,   \* the values _testGeneration had before the current one
  lastOp,            \* the handler that ran last, and for _update whether it returned or threw
  hadPass,           \* TRUE when _update has run since construction or the last startedLoading()
  tagsAssigned,      \* the items whose tags the last _update assigned (line 166)
  collected          \* the last call of collectTestsInside: << >> or <<[rootItem, result]>>

vars == <<testGeneration, rootItems, items, heap, testItemByTestId, testItemByFile,
          guids, workspaceFolders, provider, pastGenerations, lastOp, hadPass,
          tagsAssigned, collected>>

----------------------------------------------------------------------------
(* Bounds of the model *)

\* createGuid() is called at most MaxGen times
MaxGen == 2
\* at most MaxObj test items are created after the loading item
MaxObj == 5

----------------------------------------------------------------------------
(* Strings *)

StartsWith(s, p) == Len(s) >= Len(p) /\ SubSeq(s, 1, Len(p)) = p

Substring(s, n) == SubSeq(s, n + 1, Len(s))

createGuid(n) == "guid" \o ToString(n)

IdWithGeneration(gen, id) == gen \o id

\* Set of the elements of a sequence
Elems(s) == {s[i] : i \in DOMAIN s}

RECURSIVE SelectSeqBy(_, _)
\* Array.filter over a sequence of objects, keeping those in the set keep
SelectSeqBy(s, keep) ==
  IF s = << >> THEN << >>
  ELSE (IF Head(s) \in keep THEN <<Head(s)>> ELSE << >>) \o SelectSeqBy(Tail(s), keep)

----------------------------------------------------------------------------
(* Test items and collections of the VS Code API *)

\* the loading item is created by the constructor: it is object 1
loadingItem == 1

LoadingId == <<"loading">>

\* testController.createTestItem(id, label, uri): a fresh item, no children, no range, no tags
createTestItem(id, label, uri) ==
  [id |-> id, label |-> label, uri |-> uri, range |-> << >>, tags |-> << >>,
   children |-> << >>, flat |-> FALSE, canResolveChildren |-> FALSE,
   description |-> << >>, sortText |-> << >>, error |-> << >>,
   treeItem |-> << >>, disabledProject |-> << >>, configError |-> << >>]

\* the object literal of the single-folder root: its children are testController.items
FlatRootItem(id, uri) ==
  [createTestItem(id, "<root>", uri) EXCEPT !.flat = TRUE]

\* the state a handler works on: heap, top-level collection and root registry
Children(m, o) == IF m.heap[o].flat THEN m.items ELSE m.heap[o].children

SetChildren(m, o, c) ==
  IF m.heap[o].flat THEN [m EXCEPT !.items = c]
  ELSE [m EXCEPT !.heap[o].children = c]

\* TestItemCollection.get(id): << >> or <<item>>
CollGet(m, coll, id) ==
  LET hit == {i \in DOMAIN coll : m.heap[coll[i]].id = id}
  IN IF hit = {} THEN << >> ELSE <<coll[CHOOSE i \in hit : TRUE]>>

\* TestItemCollection.delete(id)
CollDelete(m, coll, id) ==
  SelectSeqBy(coll, {o \in Elems(coll) : m.heap[o].id # id})

\* TestItemCollection.add(item): an item with the same id is replaced in place
CollAdd(m, coll, o) ==
  LET hit == {i \in DOMAIN coll : m.heap[coll[i]].id = m.heap[o].id}
  IN IF hit = {} THEN Append(coll, o)
     ELSE [coll EXCEPT ![CHOOSE i \in hit : TRUE] = o]

\* allocate a new item object; the new object is Len(heap) of the result
Alloc(m, item) == [m EXCEPT !.heap = Append(m.heap, item)]

----------------------------------------------------------------------------
(* Map<string, TestItem> as a sequence of [key, item] in insertion order *)

MapHas(map, k) == \E i \in DOMAIN map : map[i].key = k

MapGet(map, k) == map[CHOOSE i \in DOMAIN map : map[i].key = k].item

MapSet(map, k, o) ==
  IF MapHas(map, k)
  THEN [i \in DOMAIN map |-> IF map[i].key = k THEN [key |-> k, item |-> o] ELSE map[i]]
  ELSE Append(map, [key |-> k, item |-> o])

RECURSIVE MapDelete(_, _)
MapDelete(map, k) ==
  IF map = << >> THEN << >>
  ELSE (IF Head(map).key = k THEN << >> ELSE <<Head(map)>>) \o MapDelete(Tail(map), k)

MapKeys(map) == [i \in DOMAIN map |-> map[i].key]

----------------------------------------------------------------------------
(* vscode.Uri, vscode.Range, vscode.TestTag *)

UriFile(path) == <<path>>

uriToPath(uri) == uri[1]

Max(a, b) == IF a >= b THEN a ELSE b

\* new Range(startLine, startCharacter, endLine, endCharacter), held as <<range>>; undefined is << >>
NewRange(sl, sc, el, ec) ==
  <<[start |-> [line |-> sl, character |-> sc], end |-> [line |-> el, character |-> ec]]>>

TestTag(tag) == [id |-> tag]

----------------------------------------------------------------------------
(* _syncSuite *)

\* what symbol testTreeItemSymbol holds: the upstream tree item (its own fields)
TreeItemRef(u) ==
  [id |-> u.id, kind |-> u.kind, subKind |-> u.subKind, title |-> u.title,
   location |-> u.location, tags |-> u.tags, test |-> u.test]

\* areEqualTags comparing position by position
areEqualTagsOrdered(uTags, vsTags) ==
  /\ Len(uTags) = Len(vsTags)
  /\ \A i \in DOMAIN vsTags : vsTags[i].id = uTags[i]

areEqualTags(uTags, vsTags) ==
  /\ Len(uTags) = Len(vsTags)
  /\ \A i \in DOMAIN vsTags : vsTags[i].id \in Elems(uTags)

\* lines 139-151: children of the current generation whose stripped id is no logical child are deleted
RemoveDeletedChildren(m, g, uChildren, vs) ==
  LET uIds == {uChildren[i].id : i \in DOMAIN uChildren}
      vsChildren == Children(m, vs)
      gone == {c \in Elems(vsChildren) :
                 /\ StartsWith(m.heap[c].id, g)
                 /\ Substring(m.heap[c].id, Len(g)) \notin uIds}
  IN SetChildren(m, vs, SelectSeqBy(vsChildren, Elems(vsChildren) \ gone))

\* lines 164-173: back-reference, tags and range of one child
SyncAttributes(item, uChild) ==
  LET withRef == [item EXCEPT !.treeItem = <<TreeItemRef(uChild)>>]
      withTags ==
        IF uChild.kind = "case" /\ ~areEqualTags(uChild.tags, withRef.tags)
        THEN [withRef EXCEPT !.tags = [i \in DOMAIN uChild.tags |-> TestTag(uChild.tags[i])]]
        ELSE withRef
      hasLocation == uChild.location.line # 0 \/ uChild.location.column # 0
      line == uChild.location.line
  IN IF hasLocation /\ (withTags.range = << >> \/ withTags.range[1].start.line + 1 # line)
     THEN [withTags EXCEPT !.range = NewRange(Max(line - 1, 0), 0, line, 0)]
     ELSE IF hasLocation /\ withTags.range = << >>
     THEN [withTags EXCEPT !.range = << >>]
     ELSE withTags

\* lines 155-163: the child for a logical child, created and added when there is none
EnsureChild(m, g, uChild, vs) ==
  LET found == CollGet(m, Children(m, vs), IdWithGeneration(g, uChild.id))
      fresh == [createTestItem(IdWithGeneration(g, uChild.id), uChild.title,
                               UriFile(uChild.location.file))
                  EXCEPT !.canResolveChildren =
                    uChild.kind = "group" /\ uChild.subKind = "file" /\ uChild.children = << >>]
      m1 == Alloc(m, fresh)
  IN IF found # << >> THEN m
     ELSE SetChildren(m1, vs, CollAdd(m1, Children(m1, vs), Len(m1.heap)))

RECURSIVE AddNewChildren(_, _, _, _, _)
\* lines 154-174, from logical child i on
AddNewChildren(m, g, uChildren, vs, i) ==
  IF i > Len(uChildren) THEN m
  ELSE LET m1 == EnsureChild(m, g, uChildren[i], vs)
           vsChild == CollGet(m1, Children(m1, vs), IdWithGeneration(g, uChildren[i].id))[1]
           m2 == [m1 EXCEPT !.heap[vsChild] = SyncAttributes(@, uChildren[i]),
                            !.tagsAssigned =
                              IF /\ uChildren[i].kind = "case"
                                 /\ ~areEqualTags(uChildren[i].tags, m1.heap[vsChild].tags)
                              THEN @ \cup {vsChild} ELSE @]
       IN AddNewChildren(m2, g, uChildren, vs, i + 1)

RECURSIVE SyncSuite(_, _, _, _)
RECURSIVE SyncChildren(_, _, _, _, _)
\* lines 177-180, from logical child i on
SyncChildren(m, g, uChildren, vs, i) ==
  IF i > Len(uChildren) THEN m
  ELSE LET vsChild == CollGet(m, Children(m, vs), IdWithGeneration(g, uChildren[i].id))[1]
       IN SyncChildren(SyncSuite(m, g, uChildren[i].children, vsChild), g, uChildren, vs, i + 1)

\* _syncSuite(uItem, vsItem), uItem given by its children
SyncSuite(m, g, uChildren, vs) ==
  LET m1 == RemoveDeletedChildren(m, g, uChildren, vs)
      m2 == AddNewChildren(m1, g, uChildren, vs, 1)
  IN SyncChildren(m2, g, uChildren, vs, 1)

----------------------------------------------------------------------------
(* _syncDisabledProjects and _syncConfigErrors *)

DisabledPrefix == <<"[disabled] ">>

ErrorPrefix == <<"[error] ">>

\* the strings the sort keys are made of, in the order localeCompare gives them
Collation == <<":", "/ws/A/playwright.config.ts", "/ws/B/playwright.config.ts", "p1", "p2">>

Rank(tok) == CHOOSE i \in DOMAIN Collation : Collation[i] = tok

RECURSIVE localeCompareLess(_, _)
\* a.localeCompare(b) < 0 for strings given as tokens
localeCompareLess(a, b) ==
  IF a = << >> THEN b # << >>
  ELSE IF b = << >> THEN FALSE
  ELSE IF Head(a) = Head(b) THEN localeCompareLess(Tail(a), Tail(b))
  ELSE Rank(Head(a)) < Rank(Head(b))

SortKey(project) == <<project.configFile, ":", project.name>>

RECURSIVE InsertSorted(_, _)
InsertSorted(sorted, project) ==
  IF sorted = << >> THEN <<project>>
  ELSE IF localeCompareLess(SortKey(project), SortKey(Head(sorted)))
       THEN <<project>> \o sorted
       ELSE <<Head(sorted)>> \o InsertSorted(Tail(sorted), project)

RECURSIVE SortProjects(_)
\* lines 187-191: Array.sort by configFile + ':' + name, stable
SortProjects(projects) ==
  IF projects = << >> THEN << >>
  ELSE InsertSorted(SortProjects(SubSeq(projects, 1, Len(projects) - 1)),
                    projects[Len(projects)])

\* path.relative(workspaceFolder, configFile) for a config file of the folder
PathRelative(from, to) ==
  IF to = from \o "/playwright.config.ts" THEN "playwright.config.ts" ELSE to

DisabledProjectId(project) == DisabledPrefix \o <<project.name, " - ", project.configFile>>

\* ids of the children of the root that start with the prefix (lines 184-186, 211-213)
OldIds(m, root, prefix) ==
  {m.heap[c].id : c \in {c \in Elems(Children(m, root)) : StartsWith(m.heap[c].id, prefix)}}

RECURSIVE DeleteIds(_, _, _)
\* lines 206-207, 236-237: delete what is left of the old ids
DeleteIds(m, root, ids) ==
  IF ids = {} THEN m
  ELSE LET id == CHOOSE id \in ids : TRUE
       IN DeleteIds(SetChildren(m, root, CollDelete(m, Children(m, root), id)), root, ids \ {id})

DisabledProjectItem(project) ==
  [createTestItem(DisabledProjectId(project), "", << >>) EXCEPT
     !.description = <<PathRelative(project.workspaceFolder, project.configFile),
                       " [", project.name, "] - disabled">>,
     !.sortText = <<"z", project.name>>,
     !.disabledProject = <<project>>]

RECURSIVE AddDisabledProjects(_, _, _, _)
\* lines 192-205
AddDisabledProjects(m, root, projects, old) ==
  IF projects = << >> THEN [m |-> m, old |-> old]
  ELSE LET projectId == DisabledProjectId(Head(projects))
           m1 == Alloc(m, DisabledProjectItem(Head(projects)))
           m2 == SetChildren(m1, root, CollAdd(m1, Children(m1, root), Len(m1.heap)))
       IN IF projectId \in old
          THEN AddDisabledProjects(m, root, Tail(projects), old \ {projectId})
          ELSE AddDisabledProjects(m2, root, Tail(projects), old)

\* _syncDisabledProjects(workspaceRootItem, disabledProjects)
SyncDisabledProjects(m, root, disabledProjects) ==
  LET r == AddDisabledProjects(m, root, SortProjects(disabledProjects), OldIds(m, root, DisabledPrefix))
  IN DeleteIds(r.m, root, r.old)

\* line 216: error.message ?? error.value ?? 'Unknown error'
ErrorMessage(error) ==
  IF error.message # << >> THEN error.message[1]
  ELSE IF error.value # << >> THEN error.value[1]
  ELSE "Unknown error"

\* line 217
ErrorLocation(model, error) ==
  IF error.location # << >>
  THEN <<error.location[1].file, ":", ToString(error.location[1].line)>>
  ELSE <<model.configFile>>

ConfigErrorId(model, error) ==
  ErrorPrefix \o ErrorLocation(model, error) \o <<" - ", ErrorMessage(error)>>

ConfigErrorItem(model, error) ==
  [createTestItem(ConfigErrorId(model, error), "",
                  UriFile(IF error.location # << >> THEN error.location[1].file
                          ELSE model.configFile)) EXCEPT
     !.error = <<ErrorMessage(error)>>,
     !.description = <<PathRelative(model.workspaceFolder, model.configFile),
                       " - ", ErrorMessage(error)>>,
     !.sortText = <<"z">> \o ConfigErrorId(model, error),
     !.range = IF error.location # << >>
               THEN NewRange(error.location[1].line - 1, error.location[1].column - 1,
                             error.location[1].line - 1, error.location[1].column - 1)
               ELSE << >>,
     !.configError = <<error>>]

RECURSIVE AddConfigErrors(_, _, _, _, _)
\* lines 215-234 for one model
AddConfigErrors(m, root, model, errors, old) ==
  IF errors = << >> THEN [m |-> m, old |-> old]
  ELSE LET errorId == ConfigErrorId(model, Head(errors))
           m1 == Alloc(m, ConfigErrorItem(model, Head(errors)))
           m2 == SetChildren(m1, root, CollAdd(m1, Children(m1, root), Len(m1.heap)))
       IN IF errorId \in old
          THEN AddConfigErrors(m, root, model, Tail(errors), old \ {errorId})
          ELSE AddConfigErrors(m2, root, model, Tail(errors), old)

RECURSIVE AddErrorsByModel(_, _, _, _)
\* lines 214-235: errorsByModel is a sequence of models that have errors
AddErrorsByModel(m, root, errorsByModel, old) ==
  IF errorsByModel = << >> THEN [m |-> m, old |-> old]
  ELSE LET r == AddConfigErrors(m, root, Head(errorsByModel), Head(errorsByModel).errors, old)
       IN AddErrorsByModel(r.m, root, Tail(errorsByModel), r.old)

\* _syncConfigErrors(workspaceRootItem, errorsByModel)
SyncConfigErrors(m, root, errorsByModel) ==
  LET r == AddErrorsByModel(m, root, errorsByModel, OldIds(m, root, ErrorPrefix))
  IN DeleteIds(r.m, root, r.old)

----------------------------------------------------------------------------
(* _indexTree *)

IsTestRef(item) ==
  /\ item.treeItem # << >>
  /\ item.treeItem[1].kind \in {"case", "test"}
  /\ item.treeItem[1].test # << >>

RECURSIVE Visit(_, _, _)
RECURSIVE VisitAll(_, _, _)
\* lines 243-251: idx is [byTestId, byFile]; a later set of the same key wins
Visit(m, idx, o) ==
  LET item == m.heap[o]
      idx1 == IF IsTestRef(item)
              THEN [idx EXCEPT !.byTestId = (item.treeItem[1].test[1] :> o) @@ @]
              ELSE idx
      idx2 == VisitAll(m, idx1, Children(m, o))
  IN IF item.uri # << >> /\ item.range = << >>
     THEN [idx2 EXCEPT !.byFile = (uriToPath(item.uri) :> o) @@ @]
     ELSE idx2

VisitAll(m, idx, objs) ==
  IF objs = << >> THEN idx
  ELSE VisitAll(m, Visit(m, idx, Head(objs)), Tail(objs))

\* _indexTree(): both indices, rebuilt from the registered roots
IndexTree(m) ==
  VisitAll(m, [byTestId |-> << >>, byFile |-> << >>],
           [i \in DOMAIN m.rootItems |-> m.rootItems[i].item])

----------------------------------------------------------------------------
(* _createRootItemIfNeeded and _deleteRootItem *)

\* path.basename(fsPath) for the workspace folders of the model
Basename(fsPath) ==
  CASE fsPath = "/ws/A" -> "A"
    [] fsPath = "/ws/B" -> "B"
    [] OTHER -> fsPath

\* _createRootItemIfNeeded(uri), with folders the (defined) workspaceFolders list
CreateRootItemIfNeeded(m, g, folders, fsPath) ==
  IF MapHas(m.rootItems, fsPath) THEN m
  ELSE IF Len(folders) = 1
  THEN LET m1 == Alloc(m, FlatRootItem(IdWithGeneration(g, <<fsPath>>), UriFile(fsPath)))
       IN [m1 EXCEPT !.rootItems = MapSet(@, fsPath, Len(m1.heap))]
  ELSE LET m1 == Alloc(m, createTestItem(IdWithGeneration(g, <<fsPath>>), Basename(fsPath),
                                         UriFile(fsPath)))
           m2 == [m1 EXCEPT !.items = CollAdd(m1, m1.items, Len(m1.heap))]
       IN [m2 EXCEPT !.rootItems = MapSet(@, fsPath, Len(m1.heap))]

\* _deleteRootItem(fsPath) with line 286 keeping only the item 'disabled'
DeleteRootItemDropsLoading(m, g, folders, fsPath) ==
  LET kept == {o \in Elems(m.items) : m.heap[o].id = <<"disabled">>}
      m1 == IF Len(folders) = 1
            THEN [m EXCEPT !.items = SelectSeqBy(m.items, kept)]
            ELSE [m EXCEPT !.items = CollDelete(m, m.items, IdWithGeneration(g, <<fsPath>>))]
  IN [m1 EXCEPT !.rootItems = MapDelete(@, fsPath)]

\* _deleteRootItem(fsPath)
DeleteRootItem(m, g, folders, fsPath) ==
  LET kept == {o \in Elems(m.items) : m.heap[o].id = LoadingId \/ m.heap[o].id = <<"disabled">>}
      m1 == IF Len(folders) = 1
            THEN [m EXCEPT !.items = SelectSeqBy(m.items, kept)]
            ELSE [m EXCEPT !.items = CollDelete(m, m.items, IdWithGeneration(g, <<fsPath>>))]
  IN [m1 EXCEPT !.rootItems = MapDelete(@, fsPath)]

----------------------------------------------------------------------------
(* _update *)

\* line 101-102: the models of the folder that report configuration errors
ConfigErrorsByModel(content) == SelectSeq(content.models, LAMBDA model : model.errors # << >>)

\* line 116: nothing to show for the folder
IsEmptyContent(content) ==
  /\ content.rootChildren = << >>
  /\ content.disabledProjects = << >>
  /\ ConfigErrorsByModel(content) = << >>

\* lines 121-124: the three synchronisations under the root of the folder
SyncFolder(m, g, fsPath, content) ==
  SyncConfigErrors(
    SyncDisabledProjects(
      SyncSuite(m, g, content.rootChildren, MapGet(m.rootItems, fsPath)),
      MapGet(m.rootItems, fsPath), content.disabledProjects),
    MapGet(m.rootItems, fsPath), ConfigErrorsByModel(content))

\* lines 95-124: one iteration of the loop over the workspace folders
UpdateFolder(m, g, folders, fsPath, content) ==
  IF IsEmptyContent(content) THEN DeleteRootItem(m, g, folders, fsPath)
  ELSE SyncFolder(CreateRootItemIfNeeded(m, g, folders, fsPath), g, fsPath, content)

RECURSIVE UpdateFolders(_, _, _, _, _)
\* lines 94-125, from folder i on
UpdateFolders(m, g, folders, prov, i) ==
  IF i > Len(folders) THEN m
  ELSE UpdateFolders(UpdateFolder(m, g, folders, folders[i], prov[folders[i]]),
                     g, folders, prov, i + 1)

RECURSIVE RemoveStaleRootItems(_, _, _, _)
\* lines 128-131 over the keys that were registered; reading the undefined folder list throws
RemoveStaleRootItems(m, g, ws, keys) ==
  IF keys = << >> THEN [m |-> m, threw |-> FALSE]
  ELSE IF ~ws.defined THEN [m |-> m, threw |-> TRUE]
  ELSE IF Head(keys) \in Elems(ws.list)
  THEN RemoveStaleRootItems(m, g, ws, Tail(keys))
  ELSE RemoveStaleRootItems(DeleteRootItem(m, g, ws.list, Head(keys)), g, ws, Tail(keys))

\* lines 127-132: the stale roots are removed, then the tree is indexed
FinishPass(m, g, ws) ==
  LET r == RemoveStaleRootItems(m, g, ws, MapKeys(m.rootItems))
  IN [m |-> r.m, threw |-> r.threw, idx |-> IndexTree(r.m)]

\* _update(): the state it leaves, the indices it builds, and whether it threw before _indexTree
UpdatePass(m, g, ws, prov) ==
  FinishPass(UpdateFolders(m, g, IF ws.defined THEN ws.list ELSE << >>, prov, 1), g, ws)

----------------------------------------------------------------------------
(* What the environment provides: workspace folders, and per folder the    *)
(* upstream tree (sorted and flattened), the disabled projects and the     *)
(* models with their configuration errors                                  *)

FolderA == "/ws/A"

FolderB == "/ws/B"

Folders == {FolderA, FolderB}

ConfigFile(fsPath) == fsPath \o "/playwright.config.ts"

Location(file, line, column) == [file |-> file, line |-> line, column |-> column]

CaseItem(id, title, file, line, tags, testId) ==
  [id |-> <<id>>, kind |-> "case", subKind |-> "", title |-> title,
   location |-> Location(file, line, 0), tags |-> tags, test |-> <<testId>>, children |-> << >>]

FileItem(file, title, children) ==
  [id |-> <<file>>, kind |-> "group", subKind |-> "file", title |-> title,
   location |-> Location(file, 0, 0), tags |-> << >>, test |-> << >>, children |-> children]

CaseX == CaseItem("test:a.spec.ts/x", "x", "/ws/A/a.spec.ts", 3, << >>, "id-x")

CaseY == CaseItem("test:a.spec.ts/y", "y", "/ws/A/a.spec.ts", 7, << >>, "id-y")

TreesA ==
  { << >>,
    <<FileItem("/ws/A/a.spec.ts", "a.spec.ts", <<CaseX, CaseY>>)>>,
    <<FileItem("/ws/A/a.spec.ts", "a.spec.ts", <<CaseX>>)>> }

TreesB == { << >>, <<FileItem("/ws/B/b.spec.ts", "b.spec.ts", << >>)>> }

Project(fsPath, name) ==
  [name |-> name, configFile |-> ConfigFile(fsPath), workspaceFolder |-> fsPath]

DisabledA == { << >>, <<Project(FolderA, "p1")>> }

DisabledB == { << >> }

ErrorAt(file, line, column, message) ==
  [message |-> <<message>>, value |-> << >>, location |-> <<Location(file, line, column)>>]

ErrorValue(value) == [message |-> << >>, value |-> <<value>>, location |-> << >>]

ErrorsA == { << >>, <<ErrorAt("/ws/A/playwright.config.ts", 2, 1, "bad config")>> }

ErrorsB == { << >>, <<ErrorValue("no tests")>> }

Model(fsPath, errors) ==
  [configFile |-> ConfigFile(fsPath), workspaceFolder |-> fsPath, errors |-> errors]

Content(fsPath, tree, disabled, errors) ==
  [rootChildren |-> tree, disabledProjects |-> disabled, models |-> <<Model(fsPath, errors)>>]

NoContent(fsPath) == Content(fsPath, << >>, << >>, << >>)

\* a folder shows a tree, alone or with disabled projects or with configuration errors
Contents(fsPath) ==
  IF fsPath = FolderA
  THEN {Content(fsPath, t, d, << >>) : t \in TreesA, d \in DisabledA}
         \cup {Content(fsPath, t, << >>, e) : t \in TreesA, e \in ErrorsA}
  ELSE {Content(fsPath, t, << >>, << >>) : t \in TreesB}
         \cup {Content(fsPath, << >>, << >>, e) : e \in ErrorsB}

Undefined == [defined |-> FALSE, list |-> << >>]

FolderList(list) == [defined |-> TRUE, list |-> list]

WorkspaceChoices ==
  {Undefined, FolderList(<< >>), FolderList(<<FolderA>>), FolderList(<<FolderB>>),
   FolderList(<<FolderA, FolderB>>)}

\* what the provider gives for the folders of ws; a folder that is not open has no models
ProviderChoices(ws) ==
  {prov \in [Folders -> UNION {Contents(f) : f \in Folders}] :
     \A f \in Folders :
       IF f \in Elems(ws.list) THEN prov[f] \in Contents(f) ELSE prov[f] = NoContent(f)}

----------------------------------------------------------------------------
(* Garbage: an item that no collection, registry, index or field of the    *)
(* TestTree leads to cannot be read by any handler; its fields are dropped *)

Collected == createTestItem(<<"(collected)">>, "", << >>)

RECURSIVE Reach(_, _, _)
\* the items reachable from the items of todo through children
Reach(m, seen, todo) ==
  IF todo = {} THEN seen
  ELSE LET o == CHOOSE o \in todo : TRUE
           next == Elems(Children(m, o)) \ (seen \cup {o})
       IN Reach(m, seen \cup {o}, (todo \ {o}) \cup next)

Live(m, byTestId, byFile) ==
  Reach(m, {},
        {loadingItem} \cup Elems(m.items) \cup {m.rootItems[i].item : i \in DOMAIN m.rootItems}
          \cup {byTestId[k] : k \in DOMAIN byTestId} \cup {byFile[k] : k \in DOMAIN byFile})

CollectGarbage(m, byTestId, byFile) ==
  LET live == Live(m, byTestId, byFile)
  IN [o \in DOMAIN m.heap |-> IF o \in live THEN m.heap[o] ELSE Collected]

----------------------------------------------------------------------------
(* The handlers *)

\* what a handler starts from; no tags have been assigned yet
Machine == [heap |-> heap, items |-> items, rootItems |-> rootItems, tagsAssigned |-> {}]

Init ==
  /\ testGeneration = << >>
  /\ rootItems = << >>
  /\ items = << >>
  /\ heap = <<createTestItem(LoadingId, "Loading...", << >>)>>
  /\ testItemByTestId = << >>
  /\ testItemByFile = << >>
  /\ guids = 0
  /\ pastGenerations = {}
  /\ workspaceFolders = Undefined
  /\ provider = [f \in Folders |-> NoContent(f)]
  /\ lastOp = "constructor"
  /\ hadPass = FALSE
  /\ tagsAssigned = {}
  /\ collected = << >>

\* startedLoading() without line 62: the index by test id is left as it was
StartedLoadingKeepsIndex(ws) ==
  /\ guids < MaxGen
  /\ guids' = guids + 1
  /\ testGeneration' = <<createGuid(guids + 1), ":">>
  /\ pastGenerations' = pastGenerations \cup {testGeneration}
  /\ rootItems' = << >>
  /\ testItemByTestId' = testItemByTestId
  /\ testItemByFile' = << >>
  /\ items' = IF ws.defined /\ Len(ws.list) # 0 THEN <<loadingItem>> ELSE << >>
  /\ workspaceFolders' = ws
  /\ heap' = CollectGarbage([heap |-> heap, items |-> items', rootItems |-> << >>],
                            testItemByTestId, << >>)
  /\ provider' = [f \in Folders |-> NoContent(f)]
  /\ lastOp' = "startedLoading"
  /\ hadPass' = FALSE
  /\ tagsAssigned' = {}
  /\ collected' = << >>

\* startedLoading() without line 60: with no folder open the top level is left as it was
StartedLoadingKeepsItems(ws) ==
  /\ guids < MaxGen
  /\ guids' = guids + 1
  /\ testGeneration' = <<createGuid(guids + 1), ":">>
  /\ pastGenerations' = pastGenerations \cup {testGeneration}
  /\ rootItems' = << >>
  /\ testItemByTestId' = << >>
  /\ testItemByFile' = << >>
  /\ items' = IF ws.defined /\ Len(ws.list) # 0 THEN <<loadingItem>> ELSE items
  /\ workspaceFolders' = ws
  /\ heap' = CollectGarbage([heap |-> heap, items |-> items', rootItems |-> << >>], << >>, << >>)
  /\ provider' = [f \in Folders |-> NoContent(f)]
  /\ lastOp' = "startedLoading"
  /\ hadPass' = FALSE
  /\ tagsAssigned' = {}
  /\ collected' = << >>

\* startedLoading(), lines 58-69
StartedLoading(ws) ==
  /\ guids < MaxGen
  /\ guids' = guids + 1
  /\ testGeneration' = <<createGuid(guids + 1), ":">>
  /\ pastGenerations' = pastGenerations \cup {testGeneration}
  /\ rootItems' = << >>
  /\ testItemByTestId' = << >>
  /\ testItemByFile' = << >>
  /\ items' = IF ws.defined /\ Len(ws.list) # 0 THEN <<loadingItem>> ELSE << >>
  /\ workspaceFolders' = ws
  /\ heap' = CollectGarbage([heap |-> heap, items |-> items', rootItems |-> << >>], << >>, << >>)
  /\ provider' = [f \in Folders |-> NoContent(f)]
  /\ lastOp' = "startedLoading"
  /\ hadPass' = FALSE
  /\ tagsAssigned' = {}
  /\ collected' = << >>

\* the parent of an item: the item whose own collection holds it, if any
ParentOf(o) == {p \in DOMAIN heap : ~heap[p].flat /\ o \in Elems(heap[p].children)}

\* finishedLoading(), lines 71-76
FinishedLoading ==
  /\ IF ParentOf(loadingItem) # {}
     THEN /\ heap' = [p \in DOMAIN heap |->
                        IF p \in ParentOf(loadingItem)
                        THEN [heap[p] EXCEPT !.children =
                                CollDelete(Machine, @, heap[loadingItem].id)]
                        ELSE heap[p]]
          /\ items' = items
     ELSE /\ items' = IF CollGet(Machine, items, heap[loadingItem].id) # << >>
                      THEN CollDelete(Machine, items, heap[loadingItem].id)
                      ELSE items
          /\ heap' = heap
  /\ lastOp' = "finishedLoading"
  /\ collected' = << >>
  /\ UNCHANGED <<testGeneration, rootItems, testItemByTestId, testItemByFile, guids,
                 workspaceFolders, provider, pastGenerations, hadPass, tagsAssigned>>

\* the fields of TestTree after a pass with result r
PassResult(r, ws, prov) ==
  /\ Len(r.m.heap) <= MaxObj + 1
  /\ testItemByTestId' = IF r.threw THEN testItemByTestId ELSE r.idx.byTestId
  /\ testItemByFile' = IF r.threw THEN testItemByFile ELSE r.idx.byFile
  /\ heap' = CollectGarbage(r.m, testItemByTestId', testItemByFile')
  /\ items' = r.m.items
  /\ rootItems' = r.m.rootItems
  /\ workspaceFolders' = ws
  /\ provider' = prov
  /\ lastOp' = IF r.threw THEN "update threw" ELSE "update"
  /\ hadPass' = TRUE
  /\ tagsAssigned' = r.m.tagsAssigned
  /\ collected' = << >>
  /\ UNCHANGED <<testGeneration, guids, pastGenerations>>

\* models.onUpdated -> _update(), lines 93-133, with what the environment holds at that time
Update(ws, prov) == PassResult(UpdatePass(Machine, testGeneration, ws, prov), ws, prov)

Next ==
  \/ \E ws \in WorkspaceChoices : StartedLoading(ws)
  \/ FinishedLoading
  \/ \E ws \in WorkspaceChoices : \E prov \in ProviderChoices(ws) : Update(ws, prov)

Spec == Init /\ [][Next]_vars

----------------------------------------------------------------------------
(* Reading the state *)

\* the items reachable from the top level of the tree container
TreeItems(m) == Reach(m, {}, Elems(m.items))

\* the folders that are open
ActiveFolders(ws) == Elems(ws.list)

RECURSIVE LogicalIds(_)
\* the ids of the logical nodes below a list of children
LogicalIds(uChildren) ==
  IF uChildren = << >> THEN {}
  ELSE {Head(uChildren).id} \cup LogicalIds(Head(uChildren).children)
         \cup LogicalIds(Tail(uChildren))

\* the ids of the logical tree of folder f in a pass over (ws, prov)
PassIds(ws, prov, f) ==
  IF f \in ActiveFolders(ws) THEN LogicalIds(prov[f].rootChildren) ELSE {}

\* item o is in the presentation tree and its id is the generation followed by logical id x
Represents(m, g, o, x) == o \in TreeItems(m) /\ m.heap[o].id = IdWithGeneration(g, x)

\* this step is an _update() that returns, and follows an earlier _update() with no
\* startedLoading() between
NextPass == hadPass /\ lastOp' = "update"

\* the items either index leads to
Indexed(byTestId, byFile) ==
  {byTestId[k] : k \in DOMAIN byTestId} \cup {byFile[k] : k \in DOMAIN byFile}

----------------------------------------------------------------------------
(* C1 - C3 *)

\* C1: identity stability. When a logical id is in the logical tree of a folder in two
\* consecutive passes, the item that represents it after the second pass is the very item
\* that represented it after the first.
C1_IdentityStable ==
  [][NextPass =>
       \A f \in Folders :
         \A x \in PassIds(workspaceFolders, provider, f) \cap PassIds(workspaceFolders', provider', f) :
           \E o \in DOMAIN heap :
             /\ Represents(Machine, testGeneration, o, x)
             /\ Represents(Machine', testGeneration', o, x)]_vars

RECURSIVE Mirrors(_, _, _, _)
\* the children of item o that carry the generation are, by stripped id, the logical
\* children, and so on below each of them
Mirrors(m, g, o, uChildren) ==
  LET prefixed == {c \in Elems(Children(m, o)) : StartsWith(m.heap[c].id, g)}
  IN /\ {Substring(m.heap[c].id, Len(g)) : c \in prefixed}
          = {uChildren[i].id : i \in DOMAIN uChildren}
     /\ \A i \in DOMAIN uChildren :
          \A c \in prefixed :
            m.heap[c].id = IdWithGeneration(g, uChildren[i].id)
              => Mirrors(m, g, c, uChildren[i].children)

\* the root of folder f is part of the tree container: the flat root, or a top-level item
RootInTree(m, f) ==
  /\ MapHas(m.rootItems, f)
  /\ \/ m.heap[MapGet(m.rootItems, f)].flat
     \/ MapGet(m.rootItems, f) \in Elems(m.items)

\* C2: structural mirror. After every pass, each open folder with content has its logical
\* tree mirrored, level by level, by items reachable from the top level of the container
\* (stated for the passes that follow a startedLoading()).
C2_StructuralMirror ==
  (lastOp = "update" /\ testGeneration # << >>) =>
    \A f \in ActiveFolders(workspaceFolders) :
      ~IsEmptyContent(provider[f]) =>
        /\ RootInTree(Machine, f)
        /\ Mirrors(Machine, testGeneration, MapGet(rootItems, f), provider[f].rootChildren)

\* C3: deletion completeness. A logical id of one pass that the next pass no longer has is
\* the stripped id of no item of the tree after that pass, and no index leads to the item
\* that represented it.
C3_DeletionComplete ==
  [][NextPass =>
       \A f \in Folders :
         \A x \in PassIds(workspaceFolders, provider, f) \ PassIds(workspaceFolders', provider', f) :
           /\ \A o \in TreeItems(Machine') : heap'[o].id # IdWithGeneration(testGeneration', x)
           /\ \A o \in DOMAIN heap :
                Represents(Machine, testGeneration, o, x)
                  => o \notin Indexed(testItemByTestId', testItemByFile')]_vars

----------------------------------------------------------------------------
(* C4 - C7 *)

\* what a structural mutation changes: the items created, each child collection in its
\* order, the top level and the root registry
Structure == <<Len(heap), [o \in DOMAIN heap |-> heap[o].children], items, rootItems>>

\* C4: idempotence. A pass that directly follows a pass with the same folders and the same
\* provider input creates, deletes, re-adds and reorders nothing and rebuilds equal indices
\* (stated for the passes that follow a startedLoading()).
C4_Idempotent ==
  [][(/\ NextPass
      /\ lastOp = "update"
      /\ testGeneration # << >>
      /\ workspaceFolders' = workspaceFolders
      /\ provider' = provider)
       => /\ Structure' = Structure
          /\ testItemByTestId' = testItemByTestId
          /\ testItemByFile' = testItemByFile]_vars

\* the folders that are open and have something to show
ContentFolders(ws, prov) == {f \in ActiveFolders(ws) : ~IsEmptyContent(prov[f])}

\* C5: root registry. After every pass the registry has an entry for a folder exactly when
\* the folder is open and has a tree child, a disabled project or a configuration error.
C5_RootRegistry ==
  lastOp \in {"update", "update threw"} =>
    /\ Elems(MapKeys(rootItems)) = ContentFolders(workspaceFolders, provider)
    /\ Len(rootItems) = Cardinality(Elems(MapKeys(rootItems)))

\* C6: root strategy. After every pass, with one open folder its root is the flat root over
\* the top level; with more than one, every root is a distinct top-level item of its own
\* whose id carries the generation.
C6_RootStrategy ==
  lastOp = "update" =>
    /\ Cardinality(ActiveFolders(workspaceFolders)) = 1
         => \A i \in DOMAIN rootItems : heap[rootItems[i].item].flat
    /\ Cardinality(ActiveFolders(workspaceFolders)) > 1
         => \A i \in DOMAIN rootItems :
              /\ ~heap[rootItems[i].item].flat
              /\ heap[rootItems[i].item].id = IdWithGeneration(testGeneration, <<rootItems[i].key>>)
              /\ rootItems[i].item \in Elems(items)
              /\ \A j \in DOMAIN rootItems : rootItems[j].item = rootItems[i].item => j = i

\* C7: stale roots. Every pass returns without raising, whatever the folders became, and
\* leaves no root registered for a folder that is no longer open.
C7_StaleRootsRemoved ==
  /\ lastOp # "update threw"
  /\ lastOp = "update" => Elems(MapKeys(rootItems)) \subseteq ActiveFolders(workspaceFolders)

----------------------------------------------------------------------------
(* C8 - C10 *)

\* C8: reload. Right after startedLoading() the registry and both indices are empty, the
\* generation is none of the earlier ones, and the top level holds the loading item alone
\* when a folder is open and nothing otherwise.
C8_ReloadContract ==
  lastOp = "startedLoading" =>
    /\ rootItems = << >>
    /\ testItemByTestId = << >>
    /\ testItemByFile = << >>
    /\ testGeneration \notin pastGenerations
    /\ items = IF ActiveFolders(workspaceFolders) # {} THEN <<loadingItem>> ELSE << >>

\* a reload that follows passes of an earlier generation which had indexed items
C8_Witness ==
  /\ lastOp = "startedLoading"
  /\ Cardinality(pastGenerations) = 2
  /\ items = <<loadingItem>>
  /\ \E o \in DOMAIN heap : heap[o] = Collected

IsSynthetic(id) == StartsWith(id, DisabledPrefix) \/ StartsWith(id, ErrorPrefix)

\* the items of the tree container and of the registered roots
AllItems ==
  Reach(Machine, {}, Elems(items) \cup {rootItems[i].item : i \in DOMAIN rootItems})

BackReferences(o) ==
  (IF heap[o].treeItem # << >> THEN 1 ELSE 0)
    + (IF heap[o].disabledProject # << >> THEN 1 ELSE 0)
    + (IF heap[o].configError # << >> THEN 1 ELSE 0)

\* C9: synthetic ids. From construction on, no '[disabled] ' or '[error] ' entry has an id
\* that _syncSuite takes for an id of the current generation, so it matches none of them
\* against the logical children, and no item carries two back-references.
C9_SyntheticIdsDisjoint ==
  \A o \in AllItems :
    /\ IsSynthetic(heap[o].id) => ~StartsWith(heap[o].id, testGeneration)
    /\ BackReferences(o) <= 1

\* the ids of the children of item o that start with the prefix
ChildIds(o, prefix) ==
  {heap[c].id : c \in {c \in Elems(Children(Machine, o)) : StartsWith(heap[c].id, prefix)}}

\* C10: auxiliary sections. After every pass, under every registered root, the
\* '[disabled] ' children are exactly the disabled projects of the folder and the
\* '[error] ' children exactly the configuration errors of its models.
C10_AuxiliaryMatchInput ==
  lastOp = "update" =>
    \A i \in DOMAIN rootItems :
      LET content == provider[rootItems[i].key]
          byModel == ConfigErrorsByModel(content)
      IN /\ ChildIds(rootItems[i].item, DisabledPrefix)
              = {DisabledProjectId(content.disabledProjects[k]) :
                   k \in DOMAIN content.disabledProjects}
         /\ ChildIds(rootItems[i].item, ErrorPrefix)
              = UNION {{ConfigErrorId(byModel[k], byModel[k].errors[e]) :
                          e \in DOMAIN byModel[k].errors} : k \in DOMAIN byModel}


----------------------------------------------------------------------------
(* C12 *)

\* the loading item is a top-level child of the tree container
LoadingAtTop == loadingItem \in Elems(items)

\* the loading item is in no child collection
LoadingAbsent ==
  /\ loadingItem \notin Elems(items)
  /\ \A p \in DOMAIN heap : loadingItem \notin Elems(heap[p].children)

\* C12: loading placeholder. startedLoading() with a folder open puts the loading item in
\* the top level; finishedLoading() leaves it in no child collection; and no pass, returning
\* or not, moves it: at the top before the pass it is at the top after it, in no collection
\* before it is in none after.
C12_LoadingBrackets ==
  [][/\ (lastOp' = "startedLoading" /\ ActiveFolders(workspaceFolders') # {}) => LoadingAtTop'
     /\ lastOp' = "finishedLoading" => LoadingAbsent'
     /\ lastOp' \in {"update", "update threw"} =>
          /\ LoadingAtTop => LoadingAtTop'
          /\ LoadingAbsent => LoadingAbsent']_vars

\* a pass during the reload that registered two roots and left the loading item at the top
C12_Witness ==
  /\ lastOp = "update"
  /\ LoadingAtTop
  /\ Len(rootItems) = 2
  /\ Len(items) > 2


----------------------------------------------------------------------------
(* C13 *)

\* C13: index completeness. After every pass that returns, every item of the tree with a
\* case/test back-reference that has a test is found by testItemForTest under that test id,
\* as an item whose back-reference has that test id; and for every item of the tree with a
\* uri and no range, testItemForFile of its path gives an item with that uri and no range.
C13_IndexComplete ==
  lastOp = "update" =>
    \A o \in TreeItems(Machine) :
      /\ IsTestRef(heap[o]) =>
           /\ heap[o].treeItem[1].test[1] \in DOMAIN testItemByTestId
           /\ IsTestRef(heap[testItemByTestId[heap[o].treeItem[1].test[1]]])
           /\ heap[testItemByTestId[heap[o].treeItem[1].test[1]]].treeItem[1].test
                = heap[o].treeItem[1].test
      /\ (heap[o].uri # << >> /\ heap[o].range = << >>) =>
           /\ uriToPath(heap[o].uri) \in DOMAIN testItemByFile
           /\ heap[testItemByFile[uriToPath(heap[o].uri)]].uri = heap[o].uri
           /\ heap[testItemByFile[uriToPath(heap[o].uri)]].range = << >>


----------------------------------------------------------------------------
(* C18 - C20 *)

RECURSIVE LogicalNodes(_)
\* the logical nodes below a list of children
LogicalNodes(uChildren) ==
  IF uChildren = << >> THEN {}
  ELSE {Head(uChildren)} \cup LogicalNodes(Head(uChildren).children)
         \cup LogicalNodes(Tail(uChildren))

RECURSIVE ReachPrefixed(_, _, _, _)
\* the items reachable from the items of todo through children whose id starts with g
ReachPrefixed(m, g, seen, todo) ==
  IF todo = {} THEN seen
  ELSE LET o == CHOOSE o \in todo : TRUE
           next == {c \in Elems(Children(m, o)) : StartsWith(m.heap[c].id, g)} \ (seen \cup {o})
       IN ReachPrefixed(m, g, seen \cup {o}, (todo \ {o}) \cup next)

\* the items below the root of folder f, through children that carry the generation
BelowRoot(f) ==
  ReachPrefixed(Machine, testGeneration, {}, {MapGet(rootItems, f)}) \ {MapGet(rootItems, f)}

\* the logical nodes of the last pass, over the folders that were open
PassNodes ==
  UNION {LogicalNodes(provider[f].rootChildren) : f \in ActiveFolders(workspaceFolders)}

\* C18: back-reference freshness. After every pass that returns, every item below a
\* registered root through generation-prefixed children carries the back-reference of a
\* logical node of this pass whose id is the stripped id of the item (stated for the passes
\* that follow a startedLoading()).
C18_BackReferenceFresh ==
  (lastOp = "update" /\ testGeneration # << >>) =>
    \A i \in DOMAIN rootItems :
      \A o \in BelowRoot(rootItems[i].key) :
        \E u \in PassNodes :
          /\ u.id = Substring(heap[o].id, Len(testGeneration))
          /\ heap[o].treeItem = <<TreeItemRef(u)>>


\* C19: index soundness. In every state, every item either index leads to is part of the
\* presentation tree: reachable from the top level of the tree container, or the flat root
\* whose children are that top level.
C19_IndexSound ==
  \A o \in Indexed(testItemByTestId, testItemByFile) :
    o \in TreeItems(Machine) \/ heap[o].flat


\* C20: single generation. Once startedLoading() has run, every item of the tree and below
\* the registered roots, other than the loading item and the '[disabled] ' and '[error] '
\* entries, has an id that starts with the current generation, and none starts with an
\* earlier one.
C20_SingleGeneration ==
  guids > 0 =>
    \A o \in AllItems :
      (o # loadingItem /\ ~IsSynthetic(heap[o].id)) =>
        /\ StartsWith(heap[o].id, testGeneration)
        /\ \A g \in pastGenerations \ {<< >>} : ~StartsWith(heap[o].id, g)

\* a pass of the second generation has built a tree, after the tree of the first
\* generation was dropped
C20_Witness ==
  /\ guids = 2
  /\ lastOp = "update"
  /\ \E o \in TreeItems(Machine) : IsTestRef(heap[o])
  /\ \E o \in DOMAIN heap : heap[o] = Collected


----------------------------------------------------------------------------
(* collectTestsInside *)

\* line 84 without '&& treeItem.test'
CarriesCaseOrTest(item) ==
  item.treeItem # << >> /\ item.treeItem[1].kind \in {"case", "test"}

\* line 84: the item carries a case or test that has a test
CarriesTest(item) == IsTestRef(item)

RECURSIVE visitItem(_, _, _)
RECURSIVE visitChildren(_, _, _)
\* lines 80-88: the item is pushed, or its children are visited in their order
visitItem(m, result, testItem) ==
  IF CarriesTest(m.heap[testItem]) THEN Append(result, testItem)
  ELSE visitChildren(m, result, Children(m, testItem))

visitChildren(m, result, objs) ==
  IF objs = << >> THEN result
  ELSE visitChildren(m, visitItem(m, result, Head(objs)), Tail(objs))

\* collectTestsInside(rootItem), lines 78-91
collectTestsInside(m, rootItem) == visitItem(m, << >>, rootItem)

\* a call of collectTestsInside on an item of the tree
CollectTestsInsideCall(rootItem) ==
  /\ collected' = <<[rootItem |-> rootItem, result |-> collectTestsInside(Machine, rootItem)]>>
  /\ lastOp' = "collectTestsInside"
  /\ UNCHANGED <<testGeneration, rootItems, items, heap, testItemByTestId, testItemByFile,
                 guids, workspaceFolders, provider, pastGenerations, hadPass, tagsAssigned>>

----------------------------------------------------------------------------
(* A second environment: one workspace folder whose test case changes its  *)
(* tags and location between passes, is split into one test per project,   *)
(* and whose model reports the same configuration error twice              *)

AttrTagLists == { << >>, <<"a", "b">>, <<"b", "a">>, <<"a", "a">> }

AttrLocations ==
  { [line |-> 0, column |-> 0], [line |-> 3, column |-> 1],
    [line |-> 5, column |-> 1], [line |-> 0, column |-> 4] }

AttrCase(tags, at) ==
  [CaseItem("test:a.spec.ts/x", "x", "/ws/A/a.spec.ts", at.line, tags, "id-x")
     EXCEPT !.location.column = at.column]

\* the test of a case in one project
TestOfProject(project, testId) ==
  [id |-> <<testId>>, kind |-> "test", subKind |-> "", title |-> project,
   location |-> Location("/ws/A/a.spec.ts", 3, 1), tags |-> << >>, test |-> <<testId>>,
   children |-> << >>]

\* a case that runs in two projects: it has no test of its own
CaseOfProjects ==
  [AttrCase(<< >>, [line |-> 3, column |-> 1]) EXCEPT
     !.test = << >>,
     !.children = <<TestOfProject("p1", "id-x-p1"), TestOfProject("p2", "id-x-p2")>>]

\* a case with a test of its own above the test of a project
CaseOverTest ==
  [AttrCase(<< >>, [line |-> 3, column |-> 1]) EXCEPT
     !.children = <<TestOfProject("p1", "id-x-p1")>>]

AttrTrees ==
  { << >> }
    \cup {<<FileItem("/ws/A/a.spec.ts", "a.spec.ts", <<AttrCase(t, at)>>)>> :
            t \in AttrTagLists, at \in AttrLocations}
    \cup {<<FileItem("/ws/A/a.spec.ts", "a.spec.ts", <<c>>)>> : c \in {CaseOfProjects, CaseOverTest}}

ErrorMessageOnly(message) == [message |-> <<message>>, value |-> << >>, location |-> << >>]

\* one error, and two errors that give the same id
AttrErrors ==
  { << >>, <<ErrorValue("no tests")>>, <<ErrorValue("no tests"), ErrorMessageOnly("no tests")>> }

AttrContents ==
  {Content(FolderA, t, << >>, << >>) : t \in AttrTrees}
    \cup {Content(FolderA, << >>, d, e) : d \in DisabledA, e \in AttrErrors}

AttrWorkspace == FolderList(<<FolderA>>)

AttrProvider(content) == [f \in Folders |-> IF f = FolderA THEN content ELSE NoContent(f)]

NextAttr ==
  \/ StartedLoading(AttrWorkspace)
  \/ FinishedLoading
  \/ \E content \in AttrContents : Update(AttrWorkspace, AttrProvider(content))
  \/ \E rootItem \in TreeItems(Machine) : CollectTestsInsideCall(rootItem)

SpecAttr == Init /\ [][NextAttr]_vars


----------------------------------------------------------------------------
(* C14 *)

RECURSIVE PreOrder(_, _)
RECURSIVE PreOrderAll(_, _)
\* the items of the subtree of o, each before its children, children in their order
PreOrder(m, o) == <<o>> \o PreOrderAll(m, Children(m, o))

PreOrderAll(m, objs) ==
  IF objs = << >> THEN << >>
  ELSE PreOrder(m, Head(objs)) \o PreOrderAll(m, Tail(objs))

\* the items of the subtree of rootItem that carry a test and have no ancestor in that
\* subtree that carries one
OutermostTests(m, rootItem) ==
  {o \in Reach(m, {}, {rootItem}) :
     /\ IsTestRef(m.heap[o])
     /\ \A a \in Reach(m, {}, {rootItem}) \ {o} :
          o \in Reach(m, {}, {a}) => ~IsTestRef(m.heap[a])}

\* C14: collectTestsInside(rootItem) returns the items of the subtree of rootItem that carry
\* a case or test with a test and have no such ancestor in the subtree, in depth-first
\* pre-order and each once; it changes neither the tree nor the indices; a second call on
\* the same item of the unchanged tree returns the same sequence.
C14_CollectTestsInside ==
  [][lastOp' = "collectTestsInside" =>
       /\ collected'[1].result
            = SelectSeqBy(PreOrder(Machine, collected'[1].rootItem),
                          OutermostTests(Machine, collected'[1].rootItem))
       /\ \A i, j \in DOMAIN collected'[1].result :
            collected'[1].result[i] = collected'[1].result[j] => i = j
       /\ UNCHANGED <<heap, items, rootItems, testItemByTestId, testItemByFile>>
       /\ (collected # << >> /\ collected[1].rootItem = collected'[1].rootItem)
            => collected'[1].result = collected[1].result]_vars

\* a call on the file item of a case that runs in two projects returned the two tests
C14_Witness ==
  /\ lastOp = "collectTestsInside"
  /\ Len(collected[1].result) = 2
  /\ ~IsTestRef(heap[collected[1].rootItem])
  /\ \E o \in Reach(Machine, {}, {collected[1].rootItem}) :
       heap[o].treeItem # << >> /\ heap[o].treeItem[1].kind = "case"


----------------------------------------------------------------------------
(* C15 - C17 *)

\* the number of times x is in the list
Count(s, x) == Cardinality({i \in DOMAIN s : s[i] = x})

IsPermutation(s, t) ==
  /\ Len(s) = Len(t)
  /\ \A x \in Elems(s) \cup Elems(t) : Count(s, x) = Count(t, x)

\* the logical cases of a pass over (ws, prov)
PassCases(ws, prov) ==
  {u \in UNION {LogicalNodes(prov[f].rootChildren) : f \in ActiveFolders(ws)} : u.kind = "case"}

\* C15: tag comparison. When the tags of a logical case in a pass are a permutation of its
\* tags in the pass before, the pass does not assign the tags of the item that represents
\* the case in both passes.
C15_TagOrderInsensitive ==
  [][NextPass =>
       \A u \in PassCases(workspaceFolders, provider) :
         \A v \in PassCases(workspaceFolders', provider') :
           (v.id = u.id /\ IsPermutation(u.tags, v.tags)) =>
             \A o \in DOMAIN heap :
               (/\ Represents(Machine, testGeneration, o, u.id)
                /\ Represents(Machine', testGeneration', o, u.id))
                 => o \notin tagsAssigned']_vars

\* after a pass with the tags [a, b], a pass with the tags [b, a] has left the tags [a, b]
\* on the item
C15_Witness ==
  /\ lastOp = "update"
  /\ tagsAssigned = {}
  /\ \E o \in TreeItems(Machine) :
       /\ heap[o].treeItem # << >>
       /\ heap[o].treeItem[1].tags = <<"b", "a">>
       /\ heap[o].tags = <<TestTag("a"), TestTag("b")>>


\* the items of the tree that represent logical node u
ItemsOf(u) == {o \in TreeItems(Machine) : heap[o].id = IdWithGeneration(testGeneration, u.id)}

\* C16: range. After every pass, the item of every logical node of the pass with a non-zero
\* line or column has a range that starts at line max(line - 1, 0), and the item of every
\* logical node without location has no range.
C16_RangeSync ==
  lastOp = "update" =>
    \A u \in PassNodes :
      \A o \in ItemsOf(u) :
        IF u.location.line # 0 \/ u.location.column # 0
        THEN /\ heap[o].range # << >>
             /\ heap[o].range[1].start.line = Max(u.location.line - 1, 0)
        ELSE heap[o].range = << >>

\* C17: tags. After every pass, the tag ids on the item of every logical case of the pass
\* are, as a set, the tags of the case.
C17_TagSync ==
  lastOp = "update" =>
    \A u \in PassCases(workspaceFolders, provider) :
      \A o \in ItemsOf(u) :
        {heap[o].tags[i].id : i \in DOMAIN heap[o].tags} = Elems(u.tags)


----------------------------------------------------------------------------
(* C11 *)

\* the ids of the '[disabled] ' and '[error] ' entries the input of folder f produces
AuxiliaryIds(ws, prov, f) ==
  IF f \notin ActiveFolders(ws) THEN {}
  ELSE {DisabledProjectId(prov[f].disabledProjects[k]) : k \in DOMAIN prov[f].disabledProjects}
         \cup UNION {{ConfigErrorId(prov[f].models[k], prov[f].models[k].errors[e]) :
                        e \in DOMAIN prov[f].models[k].errors} : k \in DOMAIN prov[f].models}

\* the children of the registered root of folder f that have the id
EntriesOf(m, f, id) ==
  IF MapHas(m.rootItems, f)
  THEN {c \in Elems(Children(m, MapGet(m.rootItems, f))) : m.heap[c].id = id}
  ELSE {}

\* C11: unchanged auxiliary entries. When the input of a folder produces the id of a
\* '[disabled] ' or '[error] ' entry in two consecutive passes, the entry under the root of
\* the folder after the second pass is the item it was after the first, with every
\* attribute as it was (stated for the passes that follow a startedLoading()).
C11_AuxiliarySkipped ==
  [][(NextPass /\ lastOp = "update" /\ testGeneration # << >>) =>
       \A f \in Folders :
         \A id \in AuxiliaryIds(workspaceFolders, provider, f)
                     \cap AuxiliaryIds(workspaceFolders', provider', f) :
           \E o \in EntriesOf(Machine, f, id) :
             /\ o \in EntriesOf(Machine', f, id)
             /\ heap'[o] = heap[o]]_vars

====
